---- MODULE Spec2Model ----
(***************************************************************************)
(* MineSweeper (src/src/main.rs): the board, the stopwatch and the game    *)
(* state machine driven by MineSweeper::interact.                          *)
(*                                                                         *)
(* The program's window is 500 x 700 pixels: below the top bar that is a   *)
(* board of 10 x 10 tiles of TILE_SIZE pixels.  The model's window is      *)
(* WindowWidth x WindowHeight, a board of 3 x 3 tiles, and a second,       *)
(* smaller window carries a board of 2 x 2 tiles on which the clock runs   *)
(* and clicks also land in the top bar and on the window's bottom edge.    *)
(***************************************************************************)
EXTENDS Integers, Sequences, FiniteSets

\* Program constants.
TOP_BAR == 200
TILE_SIZE == 50

\* Bounds of the model: the windows (in pixels), the mines a layout holds, the
\* flags the player keeps on the board at once, the clock, and the side of the
\* boards on which neighbours is called on its own.
WindowWidth == 150
WindowHeight == 350
SmallWindowWidth == 100
SmallWindowHeight == 300
MaxMines == 1
MaxFlags == 1
MaxTime == 1
MaxDim == 4

VARIABLES
    tiles,      \* MineSweeper.tiles : index -> Tile
    state,      \* MineSweeper.state : GameState
    timer,      \* MineSweeper.timer : Timer
    height,     \* MineSweeper.height (in tiles)
    width,      \* MineSweeper.width (in tiles)
    mines,      \* MineSweeper.mines
    now,        \* the monotonic clock read by Instant::now / Instant::elapsed
    panicked,   \* the thread has panicked (index out of bounds): the program is gone
    nb          \* last call of neighbours made on its own: <<tile, result>>, or <<>>

vars == <<tiles, state, timer, height, width, mines, now, panicked, nb>>

----------------------------------------------------------------------------
\* Types

GameState == {"Running", "Lose", "Win", "Menu"}

Tile(m, n, r, f) == [mine |-> m, neighbours |-> n, revealed |-> r, flagged |-> f]

TimerNone == [tag |-> "None", val |-> 0]
TimerTicking(s) == [tag |-> "Ticking", val |-> s]
TimerStopped(d) == [tag |-> "Stopped", val |-> d]

\* Timer::get_time at clock value clk; "NoTime" is Option::None.
get_time(tm, clk) ==
    CASE tm.tag = "None" -> "NoTime"
      [] tm.tag = "Ticking" -> clk - tm.val
      [] tm.tag = "Stopped" -> tm.val

\* A stop that leaves the timer as it is.
stop_keeps_ticking(tm, clk) == tm

\* Timer::stop at clock value clk.
stop(tm, clk) ==
    IF tm.tag = "Ticking" THEN TimerStopped(clk - tm.val) ELSE tm

----------------------------------------------------------------------------
\* MineSweeper::neighbours

\* (vertical, horizontal) in the order of the two nested loops.
Offsets ==
    << <<-1, -1>>, <<-1, 0>>, <<-1, 1>>,
       << 0, -1>>, << 0, 0>>, << 0, 1>>,
       << 1, -1>>, << 1, 0>>, << 1, 1>> >>

\* A neighbours that leaves out the four diagonal tiles.
neighbours_no_diagonal(w, h, tile) ==
    LET col == tile \div h
        row == tile % w
        keep(o) ==
            /\ ~(o[1] = 0 /\ o[2] = 0)
            /\ ~(o[1] # 0 /\ o[2] # 0)
            /\ ~(\/ (row = 0 /\ o[2] = -1)
                 \/ (col = 0 /\ o[1] = -1)
                 \/ (row = w - 1 /\ o[2] = 1)
                 \/ (col = h - 1 /\ o[1] = 1))
        kept == SelectSeq(Offsets, keep)
    IN  [i \in 1..Len(kept) |-> (col + kept[i][1]) * h + (row + kept[i][2])]

neighbours(w, h, tile) ==
    LET col == tile \div h
        row == tile % w
        keep(o) ==
            /\ ~(o[1] = 0 /\ o[2] = 0)
            /\ ~(\/ (row = 0 /\ o[2] = -1)
                 \/ (col = 0 /\ o[1] = -1)
                 \/ (row = w - 1 /\ o[2] = 1)
                 \/ (col = h - 1 /\ o[1] = 1))
        kept == SelectSeq(Offsets, keep)
    IN  [i \in 1..Len(kept) |-> (col + kept[i][1]) * h + (row + kept[i][2])]

\* .iter().filter(pred).count() over a Vec of tile indices: counts positions.
CountSeq(s, P(_)) == Cardinality({i \in DOMAIN s : P(s[i])})

----------------------------------------------------------------------------
\* MineSweeper::new and MineSweeper::reset

Indices(w, h) == 0 .. (w * h - 1)

\* The mine layouts the Bernoulli samples can produce (at most MaxMines mines).
Layouts(w, h) == {S \in SUBSET Indices(w, h) : Cardinality(S) <= MaxMines}

\* The tiles pushed by the first loop: mines sampled, everything else cleared.
fresh_tiles(w, h, layout) ==
    [t \in Indices(w, h) |-> Tile(t \in layout, 0, FALSE, FALSE)]

\* The adjacency pass indexes tiles[n] for every neighbour n: out of bounds panics.
adjacency_panics(w, h) ==
    \E t \in Indices(w, h) :
        \E i \in DOMAIN neighbours(w, h, t) : neighbours(w, h, t)[i] \notin Indices(w, h)

\* The adjacency pass: every tile's count of mine neighbours, as u8.
adjacency_pass(w, h, ts) ==
    [t \in DOMAIN ts |->
        [ts[t] EXCEPT !.neighbours =
            CountSeq(neighbours(w, h, t), LAMBDA n : ts[n].mine) % 256]]

\* tiles.iter().filter(|t| t.mine).count()
count_mines(ts) == Cardinality({t \in DOMAIN ts : ts[t].mine})

\* The boards of the model's windows, in tiles <<width, height>>.
Boards ==
    {<<WindowWidth \div TILE_SIZE, (WindowHeight - TOP_BAR) \div TILE_SIZE>>,
     <<SmallWindowWidth \div TILE_SIZE, (SmallWindowHeight - TOP_BAR) \div TILE_SIZE>>}

\* The tiles new and reset can generate on each board: the sampled layout after
\* the adjacency pass.
Generated ==
    [b \in Boards |->
        {adjacency_pass(b[1], b[2], fresh_tiles(b[1], b[2], layout)) :
            layout \in Layouts(b[1], b[2])}]

\* self.neighbours(tile) on each board, tabulated.
NeighboursOn ==
    [b \in Boards |-> [t \in Indices(b[1], b[2]) |-> neighbours(b[1], b[2], t)]]

\* Whether the adjacency pass panics on each board.
GenerationPanics == [b \in Boards |-> adjacency_panics(b[1], b[2])]

\* tiles.iter().filter(|t| t.flagged).count()
count_flagged(ts) == Cardinality({t \in DOMAIN ts : ts[t].flagged})

----------------------------------------------------------------------------
\* MineSweeper::interact

\* f32 as usize: the cast saturates, a negative value becomes 0.
as_usize(f) == IF f < 0 THEN 0 ELSE f

\* The points <<x, y>> of the clicks on a board of w x h tiles: one in every tile.
TilePoints(w, h) ==
    {<<c * TILE_SIZE, TOP_BAR + r * TILE_SIZE>> : c \in 0 .. (w - 1), r \in 0 .. (h - 1)}

\* The points of the clicks in the top bar, one above every column.
TopBarPoints(w, h) == {<<c * TILE_SIZE, 0>> : c \in 0 .. (w - 1)}

\* The points on the bottom edge of the window, one below every column.
BottomEdgePoints(w, h) == {<<c * TILE_SIZE, TOP_BAR + h * TILE_SIZE>> : c \in 0 .. (w - 1)}

\* The same, tabulated for the boards of the windows.
PointsOn ==
    [b \in Boards |->
        [tile |-> TilePoints(b[1], b[2]),
         bar |-> TopBarPoints(b[1], b[2]),
         edge |-> BottomEdgePoints(b[1], b[2])]]

Points == PointsOn[<<width, height>>].tile
BarPoints == PointsOn[<<width, height>>].bar
EdgePoints == PointsOn[<<width, height>>].edge
AllPoints == Points \cup BarPoints \cup EdgePoints

\* tile = (point.y - TOP_BAR) as usize / tile_size * height + point.x as usize / tile_size
tile_of(p) ==
    (as_usize(p[2] - TOP_BAR) \div TILE_SIZE) * height + as_usize(p[1]) \div TILE_SIZE

InRange(tile) == tile \in DOMAIN tiles

\* A win check with any in the place of all.
all_safe_revealed_any(ts) == \E t \in DOMAIN ts : ~ts[t].mine /\ ts[t].revealed

\* tiles.iter().filter(|t| !t.mine).all(|t| t.revealed)
all_safe_revealed(ts) == \A t \in DOMAIN ts : ~ts[t].mine => ts[t].revealed

\* What one call of interact leaves behind.
Outcome(ts, st, tm, pk) == [tiles |-> ts, state |-> st, timer |-> tm, panicked |-> pk]

Same == Outcome(tiles, state, timer, panicked)
Panic == Outcome(tiles, state, timer, TRUE)

\* A Left branch whose pattern leaves out flagged: false.
left_click_ignores_flag(tile) ==
    IF ~InRange(tile) THEN Panic
    ELSE IF ~tiles[tile].revealed
    THEN IF tiles[tile].mine
         THEN Outcome(tiles, "Lose", stop(timer, now), panicked)
         ELSE LET ts == [tiles EXCEPT ![tile].revealed = TRUE]
              IN  IF all_safe_revealed(ts)
                  THEN Outcome(ts, "Win", stop(timer, now), panicked)
                  ELSE Outcome(ts, state, timer, panicked)
    ELSE Same

\* The Button::Left branch of Running.
left_click(tile) ==
    IF ~InRange(tile) THEN Panic
    ELSE IF ~tiles[tile].revealed /\ ~tiles[tile].flagged
    THEN IF tiles[tile].mine
         THEN Outcome(tiles, "Lose", stop(timer, now), panicked)
         ELSE LET ts == [tiles EXCEPT ![tile].revealed = TRUE]
              IN  IF all_safe_revealed(ts)
                  THEN Outcome(ts, "Win", stop(timer, now), panicked)
                  ELSE Outcome(ts, state, timer, panicked)
    ELSE Same

\* A Right branch whose pattern leaves out revealed: false.
right_click_ignores_revealed(tile) ==
    IF ~InRange(tile) THEN Panic
    ELSE Outcome([tiles EXCEPT ![tile].flagged = ~tiles[tile].flagged],
                 state, timer, panicked)

\* The Button::Right branch of Running.
right_click(tile) ==
    IF ~InRange(tile) THEN Panic
    ELSE IF ~tiles[tile].revealed
    THEN Outcome([tiles EXCEPT ![tile].flagged = ~tiles[tile].flagged],
                 state, timer, panicked)
    ELSE Same

\* The chord's gate: the tile matches {revealed: true, flagged: false, mine: false}.
chord_gate(tile) ==
    tiles[tile].revealed /\ ~tiles[tile].flagged /\ ~tiles[tile].mine

\* A chord without the comparison of the count with the flags.
chord_match_always(tile) == TRUE

\* neighbours == n.iter().filter(|i| self.tiles[**i].flagged).count() as u8
chord_match(tile) ==
    tiles[tile].neighbours =
        CountSeq(NeighboursOn[<<width, height>>][tile], LAMBDA i : tiles[i].flagged) % 256

\* A pass that does not skip the flagged neighbours.
chord_pass_reveals_flagged(tile) ==
    LET n == NeighboursOn[<<width, height>>][tile]
        hit == \E i \in DOMAIN n : ~tiles[n[i]].flagged /\ tiles[n[i]].mine
        ts == [t \in DOMAIN tiles |->
                 IF (\E i \in DOMAIN n : n[i] = t) /\ ~tiles[t].mine
                 THEN [tiles[t] EXCEPT !.revealed = TRUE]
                 ELSE tiles[t]]
    IN  IF hit
        THEN Outcome(ts, "Lose", stop(timer, now), panicked)
        ELSE Outcome(ts, state, timer, panicked)

\* A pass that flips the revealed bit of the unflagged neighbours without a mine.
chord_pass_toggles_revealed(tile) ==
    LET n == NeighboursOn[<<width, height>>][tile]
        hit == \E i \in DOMAIN n : ~tiles[n[i]].flagged /\ tiles[n[i]].mine
        ts == [t \in DOMAIN tiles |->
                 IF (\E i \in DOMAIN n : n[i] = t) /\ ~tiles[t].flagged /\ ~tiles[t].mine
                 THEN [tiles[t] EXCEPT !.revealed = ~tiles[t].revealed]
                 ELSE tiles[t]]
    IN  IF hit
        THEN Outcome(ts, "Lose", stop(timer, now), panicked)
        ELSE Outcome(ts, state, timer, panicked)

\* A pass that marks the unflagged mines revealed as well.
chord_pass_reveals_mines(tile) ==
    LET n == NeighboursOn[<<width, height>>][tile]
        hit == \E i \in DOMAIN n : ~tiles[n[i]].flagged /\ tiles[n[i]].mine
        ts == [t \in DOMAIN tiles |->
                 IF (\E i \in DOMAIN n : n[i] = t) /\ ~tiles[t].flagged
                 THEN [tiles[t] EXCEPT !.revealed = TRUE]
                 ELSE tiles[t]]
    IN  IF hit
        THEN Outcome(ts, "Lose", stop(timer, now), panicked)
        ELSE Outcome(ts, state, timer, panicked)

\* The chord's pass over the neighbours: flagged ones are skipped, a mine loses
\* (a second mine finds the timer stopped already), the others are revealed.
chord_pass(tile) ==
    LET n == NeighboursOn[<<width, height>>][tile]
        hit == \E i \in DOMAIN n : ~tiles[n[i]].flagged /\ tiles[n[i]].mine
        ts == [t \in DOMAIN tiles |->
                 IF (\E i \in DOMAIN n : n[i] = t) /\ ~tiles[t].flagged /\ ~tiles[t].mine
                 THEN [tiles[t] EXCEPT !.revealed = TRUE]
                 ELSE tiles[t]]
    IN  IF hit
        THEN Outcome(ts, "Lose", stop(timer, now), panicked)
        ELSE Outcome(ts, state, timer, panicked)

\* The Button::Middle branch of Running.
middle_click(tile) ==
    IF ~InRange(tile) THEN Panic
    ELSE IF chord_gate(tile) /\ chord_match(tile)
    THEN IF \E i \in DOMAIN NeighboursOn[<<width, height>>][tile] :
                ~InRange(NeighboursOn[<<width, height>>][tile][i])
         THEN Panic
         ELSE chord_pass(tile)
    ELSE Same

\* The Running arm of interact: the first click of Left, else of Right, else of
\* Middle; btn is the button whose clicks are taken, "None" when there are none.
running(btn, p) ==
    CASE btn = "Left" -> left_click(tile_of(p))
      [] btn = "Right" -> right_click(tile_of(p))
      [] btn = "Middle" -> middle_click(tile_of(p))
      [] OTHER -> Same

\* An interact that takes the clicks in every state.
interact_any_phase(btn, p) == running(btn, p)

\* interact on a click of btn at p with the middle button not held down: only
\* the Running arm looks at clicks.
interact(btn, p) == IF state = "Running" THEN running(btn, p) ELSE Same

Click(btn, p) ==
    /\ ~panicked
    /\ LET o == interact(btn, p)
       IN  /\ tiles' = o.tiles
           /\ state' = o.state
           /\ timer' = o.timer
           /\ panicked' = o.panicked
    /\ UNCHANGED <<height, width, mines, now, nb>>

Reveal(p) == Click("Left", p)
ToggleFlag(p) == Click("Right", p) /\ count_flagged(tiles') <= MaxFlags
Chord(p) == Click("Middle", p)

\* A reset that carries the flags of the game before over to the new tiles.
reset_keeps_flags(generated) ==
    /\ mines' = count_mines(generated)
    /\ tiles' = [t \in DOMAIN generated |->
                    [generated[t] EXCEPT !.flagged = tiles[t].flagged]]
    /\ timer' = TimerNone
    /\ state' = "Menu"
    /\ panicked' = (panicked \/ GenerationPanics[<<width, height>>])
    /\ UNCHANGED <<height, width, now, nb>>

\* MineSweeper::reset; generated is the board its samples and its adjacency
\* pass produce.
Reset(generated) ==
    /\ mines' = count_mines(generated)
    /\ tiles' = generated
    /\ timer' = TimerNone
    /\ state' = "Menu"
    /\ panicked' = (panicked \/ GenerationPanics[<<width, height>>])
    /\ UNCHANGED <<height, width, now, nb>>

\* interact with the middle button held down and no click pending: reset in
\* Lose and Win, start in Menu, nothing in Running.
MiddlePressed ==
    /\ ~panicked
    /\ CASE state \in {"Lose", "Win"} ->
              \E generated \in Generated[<<width, height>>] : Reset(generated)
         [] state = "Menu" ->
              /\ state' = "Running"
              /\ timer' = TimerTicking(now)
              /\ UNCHANGED <<tiles, height, width, mines, now, panicked, nb>>
         [] OTHER -> UNCHANGED vars

\* Time passes.
Tick ==
    /\ ~panicked
    /\ now < MaxTime
    /\ now' = now + 1
    /\ UNCHANGED <<tiles, state, timer, height, width, mines, panicked, nb>>

\* let minecount = self.mines - flagged count, in usize: the difference as an
\* integer, below 0 when the subtraction overflows.
minecount == mines - count_flagged(tiles)

\* The subtraction panics when the build checks overflow.
minecount_panics == minecount < 0

\* self.timer.get_time().unwrap() panics on None, which get_time returns for
\* Timer::None alone.
unwrap_panics == timer.tag = "None"

\* MineSweeper::draw: the Menu arm reads nothing that can fail; the other arm
\* computes the minecount (an overflow panics in a build with overflow checks
\* and wraps around in a build without them) and then unwraps the time.
Draw ==
    /\ ~panicked
    /\ IF state = "Menu"
       THEN UNCHANGED vars
       ELSE \/ /\ minecount_panics \/ unwrap_panics
               /\ panicked' = TRUE
               /\ UNCHANGED <<tiles, state, timer, height, width, mines, now, nb>>
            \/ /\ ~unwrap_panics
               /\ UNCHANGED vars

----------------------------------------------------------------------------
\* The game on the board of the window, at one instant of the clock

\* MineSweeper::new(tile_size, h, w, distr), h and w in pixels.
New(tile_size, h, w) ==
    /\ height = h \div tile_size
    /\ width = w \div tile_size
    /\ tiles \in Generated[<<width, height>>]
    /\ mines = count_mines(tiles)
    /\ state = "Menu"
    /\ timer = TimerNone
    /\ panicked = GenerationPanics[<<width, height>>]

\* Game::load in a window of the given size.
Load(window_width, window_height) ==
    New(TILE_SIZE, window_height - TOP_BAR, window_width)

Init ==
    /\ Load(WindowWidth, WindowHeight)
    /\ now = 0
    /\ nb = << >>

Next ==
    \/ \E p \in Points : Reveal(p)
    \/ \E p \in Points : ToggleFlag(p)
    \/ \E p \in Points : Chord(p)
    \/ MiddlePressed
    \/ Draw

Spec == Init /\ [][Next]_vars

----------------------------------------------------------------------------
\* The game in the small window, with the clock running and with clicks in the
\* top bar and on the window's bottom edge

InitSmall ==
    /\ Load(SmallWindowWidth, SmallWindowHeight)
    /\ now = 0
    /\ nb = << >>

NextSmall ==
    \/ \E p \in AllPoints : Reveal(p)
    \/ \E p \in AllPoints : ToggleFlag(p)
    \/ \E p \in AllPoints : Chord(p)
    \/ MiddlePressed
    \/ Tick
    \/ Draw

SpecSmall == InitSmall /\ [][NextSmall]_vars

----------------------------------------------------------------------------
\* neighbours on its own, on boards of every shape up to MaxDim x MaxDim

InitNb ==
    /\ height \in 1 .. MaxDim
    /\ width \in 1 .. MaxDim
    /\ tiles = fresh_tiles(width, height, {})
    /\ mines = 0
    /\ state = "Menu"
    /\ timer = TimerNone
    /\ panicked = FALSE
    /\ now = 0
    /\ nb = << >>

CallNeighbours(t) ==
    /\ nb' = <<t, neighbours(width, height, t)>>
    /\ UNCHANGED <<tiles, state, timer, height, width, mines, now, panicked>>

NextNb == \E t \in Indices(width, height) : CallNeighbours(t)

SpecNb == InitNb /\ [][NextNb]_vars

----------------------------------------------------------------------------
\* What the claims speak of, stated without the program's own helpers

Abs(x) == IF x < 0 THEN -x ELSE x

\* The tiles around t whose row and column each differ from t's by at most 1, on
\* a board of w columns and h rows stored row by row, and stored column by column.
RowMajorAround(w, h, t) ==
    {u \in Indices(w, h) :
        u # t /\ Abs((u \div w) - (t \div w)) <= 1 /\ Abs((u % w) - (t % w)) <= 1}

ColMajorAround(w, h, t) ==
    {u \in Indices(w, h) :
        u # t /\ Abs((u \div h) - (t \div h)) <= 1 /\ Abs((u % h) - (t % h)) <= 1}

\* The tiles around t on the board in play (tabulated for the windows' boards).
AroundOn ==
    [b \in Boards |-> [t \in Indices(b[1], b[2]) |-> RowMajorAround(b[1], b[2], t)]]

Around(t) == AroundOn[<<width, height>>][t]

EverySafeTileRevealed(ts) == \A t \in DOMAIN ts : ts[t].mine \/ ts[t].revealed

FlaggedAround(t) == Cardinality({u \in Around(t) : tiles[u].flagged})

MinesAround(t) == Cardinality({u \in Around(t) : tiles[u].mine})

\* The chord applies to tile t: revealed, unflagged, no mine, and as many flags
\* around it as its count says.
ChordApplies(t) ==
    /\ tiles[t].revealed
    /\ ~tiles[t].flagged
    /\ ~tiles[t].mine
    /\ FlaggedAround(t) = tiles[t].neighbours

----------------------------------------------------------------------------
\* C1: a chord that hits no mine and leaves every tile without a mine revealed
\* ends the game in Win with the stopwatch Stopped.
C1_ChordCompletionWins ==
    [][state = "Running" /\ state' # "Lose" /\ EverySafeTileRevealed(tiles')
          => \A p \in Points :
                Chord(p) => (state' = "Win" /\ timer'.tag = "Stopped")]_vars

\* C2: a reveal of an unrevealed, unflagged tile without a mine wins and stops
\* the stopwatch when it was the last such tile, and otherwise leaves the game
\* Running with the stopwatch ticking on.
C2_RevealWinsOnLastSafeTile ==
    state = "Running"
        => \A p \in Points :
              LET t == tile_of(p)
                  o == interact("Left", p)
              IN  (~tiles[t].revealed /\ ~tiles[t].flagged /\ ~tiles[t].mine)
                      => IF \A u \in DOMAIN tiles :
                               u # t => (tiles[u].mine \/ tiles[u].revealed)
                         THEN o.state = "Win" /\ o.timer.tag = "Stopped"
                         ELSE o.state = "Running" /\ o.timer = timer

C2_Witness ==
    /\ state = "Win"
    /\ timer.tag = "Stopped"
    /\ \E t \in DOMAIN tiles : tiles[t].mine

\* C3: the game is in Win only when every tile without a mine is revealed.
C3_WinOnlyWhenAllSafeRevealed ==
    state = "Win" => EverySafeTileRevealed(tiles)

C3_Witness ==
    /\ state = "Win"
    /\ Cardinality({t \in DOMAIN tiles : tiles[t].revealed}) + mines = width * height
    /\ width * height - mines >= 2

\* C4: revealing an unrevealed, unflagged mine while Running loses and stops the
\* ticking stopwatch at the time elapsed since the start; from then on, until a
\* reset, the elapsed time read stays that value while the clock moves on.
C4_MineRevealStopsTheClock ==
    [][/\ state = "Running"
          => \A p \in AllPoints :
                LET t == tile_of(p)
                IN  (/\ InRange(t)
                     /\ ~tiles[t].revealed
                     /\ ~tiles[t].flagged
                     /\ tiles[t].mine
                     /\ Reveal(p))
                        => /\ state' = "Lose"
                           /\ timer.tag = "Ticking"
                           /\ timer' = TimerStopped(now - timer.val)
       /\ (timer.tag = "Stopped" /\ state' # "Menu")
          => /\ timer'.tag = "Stopped"
             /\ get_time(timer', now') = get_time(timer, now)]_vars

C4_Witness ==
    /\ state = "Lose"
    /\ timer.tag = "Stopped"
    /\ now > timer.val
    /\ get_time(timer, now) = timer.val

\* C5, as claimed: an applicable chord marks every unflagged tile around the
\* chorded one revealed, mine or not, and changes no other tile.
C5_ChordRevealsEveryUnflaggedNeighbour ==
    state = "Running"
        => \A p \in Points :
              LET t == tile_of(p)
              IN  ChordApplies(t)
                      => interact("Middle", p).tiles =
                            [u \in DOMAIN tiles |->
                                IF u \in Around(t) /\ ~tiles[u].flagged
                                THEN [tiles[u] EXCEPT !.revealed = TRUE]
                                ELSE tiles[u]]

\* C5, amended: an applicable chord marks revealed exactly the unflagged tiles
\* without a mine around the chorded one; the unflagged mines around it stay
\* unrevealed, and neither the flagged tiles around it nor any tile elsewhere
\* changes.
C5_ChordRevealsUnflaggedSafeNeighbours ==
    state = "Running"
        => \A p \in Points :
              LET t == tile_of(p)
              IN  ChordApplies(t)
                      => interact("Middle", p).tiles =
                            [u \in DOMAIN tiles |->
                                IF u \in Around(t) /\ ~tiles[u].flagged /\ ~tiles[u].mine
                                THEN [tiles[u] EXCEPT !.revealed = TRUE]
                                ELSE tiles[u]]

\* A chord has hit a mine: around a tile the chord applies to lies an unflagged
\* mine, the other unflagged tiles around it are revealed, and a tile away from
\* it is still covered.
C5_Witness ==
    /\ state = "Lose"
    /\ \E t \in DOMAIN tiles :
          /\ ChordApplies(t)
          /\ tiles[t].neighbours >= 1
          /\ \E u \in Around(t) : tiles[u].mine /\ ~tiles[u].flagged /\ ~tiles[u].revealed
          /\ \A u \in Around(t) : (~tiles[u].mine /\ ~tiles[u].flagged) => tiles[u].revealed
          /\ \E u \in DOMAIN tiles \ (Around(t) \cup {t}) : ~tiles[u].mine /\ ~tiles[u].revealed

\* C6: a chord on a tile that is unrevealed, flagged or a mine, or whose count
\* differs from the flags around it, changes no tile, nor the phase, nor the
\* stopwatch.
C6_InapplicableChordChangesNothing ==
    state = "Running"
        => \A p \in Points :
              LET o == interact("Middle", p)
              IN  ~ChordApplies(tile_of(p))
                      => (o.tiles = tiles /\ o.state = state /\ o.timer = timer)

C6_Witness ==
    /\ state = "Running"
    /\ \E t \in DOMAIN tiles :
          /\ tiles[t].revealed
          /\ FlaggedAround(t) # tiles[t].neighbours
          /\ \E u \in Around(t) : ~tiles[u].revealed /\ ~tiles[u].flagged

\* C7: on a board of any shape neighbours returns, each once, exactly the tiles
\* whose row and column differ from the tile's by at most 1, and the relation is
\* symmetric.
C7_NeighboursAreTheAdjacentTiles ==
    nb # << >>
        => LET t == nb[1]
               res == nb[2]
               got == {res[i] : i \in DOMAIN res}
           IN  /\ \A i, j \in DOMAIN res : i # j => res[i] # res[j]
               /\ \/ got = RowMajorAround(width, height, t)
                  \/ got = ColMajorAround(width, height, t)
               /\ \A u \in got \cap Indices(width, height) :
                     \E i \in DOMAIN neighbours(width, height, u) :
                        neighbours(width, height, u)[i] = t

\* C8: a reveal, toggle-flag or chord whose tile index lies outside the board is
\* rejected: the program goes on, and tiles, phase and stopwatch stay as they are.
C8_OutOfRangeIndexRejected ==
    [][\A p \in EdgePoints :
          (~InRange(tile_of(p)) /\ (Reveal(p) \/ ToggleFlag(p) \/ Chord(p)))
              => (~panicked' /\ UNCHANGED <<tiles, state, timer>>)]_vars

\* C9: every tile's stored count is the number of mines around it, the stored
\* total is the number of mines, and no step but a reset changes a mine bit, a
\* stored count or the total.
C9_CountsMatchMines ==
    /\ [](/\ \A t \in DOMAIN tiles : tiles[t].neighbours = MinesAround(t)
          /\ mines = Cardinality({t \in DOMAIN tiles : tiles[t].mine}))
    /\ [][(state \in {"Lose", "Win"} /\ state' = "Menu")
            \/ (/\ mines' = mines
                /\ \/ tiles' = tiles
                   \/ \A t \in DOMAIN tiles :
                         /\ tiles'[t].mine = tiles[t].mine
                         /\ tiles'[t].neighbours = tiles[t].neighbours)]_vars

C9_Witness ==
    /\ state = "Running"
    /\ \E t \in DOMAIN tiles :
          /\ tiles[t].revealed
          /\ tiles[t].neighbours = 1
          /\ \E u \in Around(t) : tiles[u].mine /\ tiles[u].flagged

\* C10: in Running a reveal of a flagged or an already revealed tile changes no
\* tile, nor the phase, nor the stopwatch.
C10_RevealOfFlaggedOrRevealedIsNoOp ==
    state = "Running"
        => \A p \in Points :
              LET t == tile_of(p)
                  o == interact("Left", p)
              IN  (tiles[t].flagged \/ tiles[t].revealed)
                      => (o.tiles = tiles /\ o.state = state /\ o.timer = timer)

\* The last covered tile without a mine carries the flag, next to a mine.
C10_Witness ==
    /\ state = "Running"
    /\ \E t \in DOMAIN tiles :
          /\ tiles[t].flagged
          /\ ~tiles[t].mine
          /\ \A u \in DOMAIN tiles \ {t} : tiles[u].mine \/ tiles[u].revealed
          /\ \E u \in Around(t) : tiles[u].mine

\* C11: a reset from Win or Lose (the one step that leaves these phases) gives
\* Menu, the stopwatch idle, and a board of
\* the same width and height on which no tile is revealed or flagged, the total
\* is the number of mines of the new layout and every count is the number of
\* mines around its tile in the new layout.
C11_ResetRegeneratesBoard ==
    [][(state \in {"Lose", "Win"} /\ state' # state)
          => /\ state' = "Menu"
             /\ timer' = TimerNone
             /\ width' = width
             /\ height' = height
             /\ DOMAIN tiles' = Indices(width, height)
             /\ mines' = Cardinality({t \in DOMAIN tiles' : tiles'[t].mine})
             /\ \A t \in DOMAIN tiles' :
                   /\ ~tiles'[t].revealed
                   /\ ~tiles'[t].flagged
                   /\ tiles'[t].neighbours =
                         Cardinality({u \in Around(t) : tiles'[u].mine})]_vars

\* A game that is over, with a flag and revealed tiles on the board and the
\* stopwatch stopped: what a reset has to clear.
C11_Witness ==
    /\ state \in {"Lose", "Win"}
    /\ timer.tag = "Stopped"
    /\ mines >= 1
    /\ \E t \in DOMAIN tiles : tiles[t].flagged
    /\ \E t \in DOMAIN tiles : tiles[t].revealed /\ tiles[t].neighbours >= 1

\* C12: the phase starts at Menu and moves only from Menu to Running, from
\* Running to Lose (with an unflagged mine on the board) or to Win, and from Lose
\* or Win to Menu.
C12_PhaseMovesAlongTheMachine ==
    /\ state = "Menu"
    /\ [][state' # state
            => /\ <<state, state'>> \in
                     {<<"Menu", "Running">>, <<"Running", "Lose">>,
                      <<"Running", "Win">>, <<"Lose", "Menu">>, <<"Win", "Menu">>}
               /\ state' = "Lose"
                     => \E t \in DOMAIN tiles :
                           tiles[t].mine /\ ~tiles[t].flagged /\ ~tiles[t].revealed]_vars

\* The game is lost on an unflagged mine while a flag stands on another tile.
C12_Witness ==
    /\ state = "Lose"
    /\ \E t \in DOMAIN tiles : tiles[t].mine /\ ~tiles[t].flagged
    /\ \E t \in DOMAIN tiles : ~tiles[t].mine /\ tiles[t].flagged

\* C13: in Lose, Win and Menu a reveal, a toggle-flag and a chord change no
\* tile, nor the phase, nor the stopwatch; and no step taken in Menu touches the
\* board or the total: it leaves everything as it is or starts the game.
C13_ActionsOutsideTheirPhaseIgnored ==
    /\ [](state \in {"Lose", "Win", "Menu"}
            => \A btn \in {"Left", "Right", "Middle"} :
                  \A p \in Points :
                     LET o == interact(btn, p)
                     IN  /\ o.tiles = tiles
                         /\ o.state = state
                         /\ o.timer = timer
                         /\ o.panicked = panicked)
    /\ [][state = "Menu"
            => /\ tiles' = tiles
               /\ mines' = mines
               /\ \/ state' = "Menu" /\ timer' = timer
                  \/ state' = "Running" /\ timer' = TimerTicking(now)]_vars

\* The game is lost with a covered tile without a mine left to reveal, a
\* revealed tile to chord and a flag to take back.
C13_Witness ==
    /\ state = "Lose"
    /\ \E t \in DOMAIN tiles : ~tiles[t].mine /\ ~tiles[t].revealed /\ ~tiles[t].flagged
    /\ \E t \in DOMAIN tiles : tiles[t].revealed
    /\ \E t \in DOMAIN tiles : tiles[t].flagged

\* C14: in Running a toggle-flag on a covered tile flips that tile's flagged bit
\* and changes nothing else, on a revealed tile it changes nothing, and it never
\* ends the game; a second toggle-flag on the tile whose flag a step has just
\* flipped gives back the tiles of before.
C14_ToggleFlagFlipsOneBit ==
    /\ [](state = "Running"
            => \A p \in Points :
                  LET t == tile_of(p)
                      o == interact("Right", p)
                  IN  /\ o.state = "Running"
                      /\ o.timer = timer
                      /\ o.panicked = panicked
                      /\ o.tiles =
                            IF tiles[t].revealed
                            THEN tiles
                            ELSE [u \in DOMAIN tiles |->
                                    IF u = t
                                    THEN Tile(tiles[u].mine, tiles[u].neighbours,
                                              tiles[u].revealed, ~tiles[u].flagged)
                                    ELSE tiles[u]])
    /\ [][\A p \in Points :
             (/\ state = "Running"
              /\ tiles'[tile_of(p)].flagged # tiles[tile_of(p)].flagged)
                 => /\ state' = "Running"
                    /\ timer' = timer
                    /\ (interact("Right", p))'.tiles = tiles
                    /\ (interact("Right", p))'.state = state
                    /\ (interact("Right", p))'.timer = timer]_vars

\* The game runs with a flag on a covered tile without a mine, beside a
\* revealed tile, and the mine is not flagged.
C14_Witness ==
    /\ state = "Running"
    /\ timer.tag = "Ticking"
    /\ \E t \in DOMAIN tiles :
          /\ tiles[t].flagged /\ ~tiles[t].mine /\ ~tiles[t].revealed
          /\ \E u \in Around(t) : tiles[u].revealed
    /\ \E t \in DOMAIN tiles : tiles[t].mine /\ ~tiles[t].flagged

\* C15: no tile is both revealed and flagged; a reveal and a chord leave every
\* flagged bit as it is and reveal no flagged tile, and a toggle-flag flags no
\* revealed tile.
C15_NeverRevealedAndFlagged ==
    /\ \A t \in DOMAIN tiles : ~(tiles[t].revealed /\ tiles[t].flagged)
    /\ state = "Running"
          => \A p \in Points :
                /\ \A btn \in {"Left", "Middle"} :
                      LET o == interact(btn, p)
                      IN  \A t \in DOMAIN tiles :
                             /\ o.tiles[t].flagged = tiles[t].flagged
                             /\ tiles[t].flagged => o.tiles[t].revealed = tiles[t].revealed
                /\ LET o == interact("Right", p)
                   IN  \A t \in DOMAIN tiles :
                          ~(o.tiles[t].revealed /\ o.tiles[t].flagged)

\* A chord has passed over a flagged tile without a mine: the tile is still
\* covered and flagged, and the other tiles without a mine around the chorded
\* one are revealed.
C15_Witness ==
    \E t \in DOMAIN tiles :
        /\ ChordApplies(t)
        /\ \E u \in Around(t) : tiles[u].flagged /\ ~tiles[u].mine /\ ~tiles[u].revealed
        /\ \A u \in Around(t) : (~tiles[u].flagged /\ ~tiles[u].mine) => tiles[u].revealed

\* C16: a revealed tile stays revealed under every step but a reset, and a
\* reset covers every tile.
C16_RevealedIsMonotonic ==
    [][IF state \in {"Lose", "Win"} /\ state' = "Menu"
       THEN \A t \in DOMAIN tiles' : ~tiles'[t].revealed
       ELSE \A t \in DOMAIN tiles :
               tiles[t].revealed => (t \in DOMAIN tiles' /\ tiles'[t].revealed)]_vars

\* The game runs and the chord applies to a tile with revealed tiles around it,
\* over which its pass goes again.
C16_Witness ==
    /\ state = "Running"
    /\ \E t \in DOMAIN tiles :
          /\ ChordApplies(t)
          /\ Cardinality({u \in Around(t) : tiles[u].revealed}) >= 2
          /\ \E u \in Around(t) : ~tiles[u].revealed /\ ~tiles[u].flagged

\* C17: whenever the board is displayed the total of mines is at least the
\* number of flagged tiles, so that the minecount's subtraction does not
\* underflow.
C17_MinecountNeverUnderflows ==
    state \in {"Running", "Lose", "Win"}
        => mines - Cardinality({t \in DOMAIN tiles : tiles[t].flagged}) >= 0

\* C18: the phase is Menu exactly when the timer is None, Running exactly when
\* it is Ticking, Lose or Win exactly when it is Stopped; the time draw unwraps
\* is there whenever the board is drawn; the timer starts only from None and
\* stops only from Ticking.
C18_PhaseAndTimerInLockStep ==
    /\ [](/\ state = "Menu" <=> timer.tag = "None"
          /\ state = "Running" <=> timer.tag = "Ticking"
          /\ state \in {"Lose", "Win"} <=> timer.tag = "Stopped"
          /\ state # "Menu" => get_time(timer, now) \in Nat)
    /\ [][/\ (timer'.tag = "Ticking" /\ timer' # timer) => timer.tag = "None"
          /\ (timer'.tag = "Stopped" /\ timer' # timer) => timer.tag = "Ticking"]_vars

\* The game is won and the stopwatch is stopped at a time after the start.
C18_Witness ==
    /\ state = "Win"
    /\ timer.tag = "Stopped"
    /\ timer.val >= 1
    /\ get_time(timer, now) = timer.val

\* C19: in Running, when the chord applies to a tile and every flagged tile
\* around it is a mine, no unflagged tile around it is a mine and the chord does
\* not lose.
C19_CorrectlyFlaggedChordNeverLoses ==
    state = "Running"
        => \A p \in Points :
              LET t == tile_of(p)
              IN  (/\ ChordApplies(t)
                   /\ \A u \in Around(t) : tiles[u].flagged => tiles[u].mine)
                      => /\ \A u \in Around(t) : ~tiles[u].flagged => ~tiles[u].mine
                         /\ interact("Middle", p).state # "Lose"

\* A chord has gone over the tiles around a tile whose one mine carries the
\* flag: they are revealed and the game runs on.
C19_Witness ==
    /\ state = "Running"
    /\ \E t \in DOMAIN tiles :
          /\ ChordApplies(t)
          /\ tiles[t].neighbours >= 1
          /\ \A u \in Around(t) : tiles[u].flagged <=> tiles[u].mine
          /\ \A u \in Around(t) : ~tiles[u].flagged => tiles[u].revealed

\* C20: no mine is ever revealed: a reveal of a mine loses and leaves the mine
\* covered, and a chord with an unflagged mine around its tile loses, leaves the
\* mines covered and reveals the other unflagged tiles around it.
C20_NoMineIsEverRevealed ==
    /\ \A t \in DOMAIN tiles : tiles[t].mine => ~tiles[t].revealed
    /\ state = "Running"
          => \A p \in Points :
                LET t == tile_of(p)
                    l == interact("Left", p)
                    m == interact("Middle", p)
                IN  /\ (tiles[t].mine /\ ~tiles[t].flagged)
                          => (l.state = "Lose" /\ l.tiles = tiles)
                    /\ (ChordApplies(t)
                          /\ \E u \in Around(t) : tiles[u].mine /\ ~tiles[u].flagged)
                          => /\ m.state = "Lose"
                             /\ \A u \in DOMAIN tiles :
                                   m.tiles[u].revealed <=>
                                      \/ tiles[u].revealed
                                      \/ (/\ u \in Around(t)
                                          /\ ~tiles[u].flagged
                                          /\ ~tiles[u].mine)

\* The first reveal of the game has hit a mine: the game is lost and no tile
\* is revealed.
C20_Witness ==
    /\ state = "Lose"
    /\ \E t \in DOMAIN tiles : tiles[t].mine /\ ~tiles[t].flagged
    /\ \A t \in DOMAIN tiles : ~tiles[t].revealed

====
